---- MODULE Spec2Model ----
(***************************************************************************)
(* Model of src/binary/legacy_memory_region.rs: LegacyFrameAllocator, the  *)
(* boot-time physical frame allocator over a firmware memory map, and      *)
(* construct_memory_map, which turns the allocator's final state into the  *)
(* classified memory map handed to the kernel.                             *)
(*                                                                         *)
(* Physical addresses are byte addresses (naturals).  A PhysFrame is       *)
(* represented by its frame number; its start address is number*FrameSize. *)
(* Option<T> is a sequence of length 0 (None) or 1 (Some).                 *)
(***************************************************************************)
EXTENDS Integers, Sequences, FiniteSets

\* Size4KiB
FrameSize == 4096

\* ---- bounds of the model -------------------------------------------------
\* longest descriptor sequence handed to the allocator
MaxDescs == 2
\* largest output buffer (in region slots) handed to construct_memory_map
MaxCap == 4
\* allocate_frame calls that return None which the model follows
MaxNone == 2

\* ---- inputs ----------------------------------------------------------------
\* descriptor start addresses: address 0, frame aligned, and not aligned
StartAddrs == {0, FrameSize, FrameSize + FrameSize \div 2, 3 * FrameSize}
\* descriptor lengths: empty, one frame, not a multiple of a frame, four frames
Lengths == {0, FrameSize, 2 * FrameSize + FrameSize \div 2, 4 * FrameSize}
\* frames handed to new_starting_at; 1 is the frame new() passes
StartFrames == {1, 2}

\* a value implementing LegacyMemoryRegion: start(), len(), usable()
Descriptors == [start : StartAddrs, len : Lengths, usable : BOOLEAN]

SeqsUpTo(S, n) == UNION {[1..k -> S] : k \in 0..n}

\* MemoryRegionKind
Kinds == {"Usable", "Bootloader", "Reserved"}

\* a slot of the output buffer that was never written (MaybeUninit)
Uninit == [start |-> 0, end |-> 0, kind |-> "uninit"]

VARIABLES
    original,            \* self.original: the retained copy of the memory map
    first_frame,         \* the frame given to new_starting_at
    memory_map,          \* self.memory_map: items the live iterator has yielded
    current_descriptor,  \* self.current_descriptor: Option<D>
    next_frame,          \* self.next_frame
    status,              \* "live", "panicked" (a call panicked), "consumed"
    ret,                 \* what the last allocate_frame call returned
    history,             \* frames returned so far, each with the descriptor it
                         \* was drawn from and the live iterator's position
    noneCalls,           \* allocate_frame calls that returned None so far
    max_addr,            \* what the last max_phys_addr call returned, if any
    regions,             \* the output buffer of construct_memory_map
    next_index,          \* next_index of construct_memory_map
    writes,              \* indices of the slots written, in the order written
    outcome              \* "none", "returned" or "panic" of construct_memory_map

vars == <<original, first_frame, memory_map, current_descriptor, next_frame,
          status, ret, history, noneCalls, max_addr, regions, next_index,
          writes, outcome>>

\* PhysFrame::containing_address
containing_address(addr) == addr \div FrameSize

\* PhysFrame::start_address
start_address(frame) == frame * FrameSize

None == << >>
Some(x) == << x >>

\* ---- allocate_frame_from_descriptor ---------------------------------------
\* PhysAddr - u64 panics when the subtraction underflows (end_addr - 1u64)
SubUnderflows(descriptor) == descriptor.start + descriptor.len < 1

\* variant: the returned frame is not stepped over (no "self.next_frame += 1")
allocate_frame_from_descriptor_NoStep(nf, descriptor) ==
    LET start_frame == containing_address(descriptor.start)
        end_frame   == containing_address(descriptor.start + descriptor.len - 1)
        snapped     == IF nf < start_frame THEN start_frame ELSE nf
    IN  IF snapped < end_frame
        THEN [next_frame |-> snapped, ret |-> Some(snapped)]
        ELSE [next_frame |-> snapped, ret |-> None]

\* variant: self.next_frame is set to start_frame without the "if smaller"
allocate_frame_from_descriptor_Rewind(nf, descriptor) ==
    LET start_frame == containing_address(descriptor.start)
        end_frame   == containing_address(descriptor.start + descriptor.len - 1)
        snapped     == start_frame
    IN  IF snapped < end_frame
        THEN [next_frame |-> snapped + 1, ret |-> Some(snapped)]
        ELSE [next_frame |-> snapped, ret |-> None]

\* result: the new self.next_frame and the returned Option<PhysFrame>
allocate_frame_from_descriptor(nf, descriptor) ==
    LET start_addr  == descriptor.start
        start_frame == containing_address(start_addr)
        end_addr    == start_addr + descriptor.len
        end_frame   == containing_address(end_addr - 1)
        snapped     == IF nf < start_frame THEN start_frame ELSE nf
    IN  IF snapped < end_frame
        THEN [next_frame |-> snapped + 1, ret |-> Some(snapped)]
        ELSE [next_frame |-> snapped, ret |-> None]

\* ---- allocate_frame --------------------------------------------------------
\* the loop "while let Some(descriptor) = self.memory_map.next()", entered with
\* the iterator having yielded i items and self.next_frame = nf

\* variant: the loop stops at a descriptor that is not usable
RECURSIVE FindNextBreak(_, _, _)
FindNextBreak(descs, i, nf) ==
    IF i >= Len(descs)
    THEN [memory_map |-> Len(descs), next_frame |-> nf,
          current_descriptor |-> None, ret |-> None, from |-> None,
          panic |-> FALSE]
    ELSE LET descriptor == descs[i + 1] IN
         IF ~descriptor.usable
         THEN [memory_map |-> i + 1, next_frame |-> nf,
               current_descriptor |-> None, ret |-> None, from |-> None,
               panic |-> FALSE]
         ELSE IF SubUnderflows(descriptor)
         THEN [memory_map |-> i + 1, next_frame |-> nf,
               current_descriptor |-> None, ret |-> None, from |-> None,
               panic |-> TRUE]
         ELSE LET r == allocate_frame_from_descriptor(nf, descriptor) IN
              IF r.ret # None
              THEN [memory_map |-> i + 1, next_frame |-> r.next_frame,
                    current_descriptor |-> Some(descriptor), ret |-> r.ret,
                    from |-> Some(descriptor), panic |-> FALSE]
              ELSE FindNextBreak(descs, i + 1, r.next_frame)

\* variant: no "if !descriptor.usable { continue; }"
RECURSIVE FindNextNoSkip(_, _, _)
FindNextNoSkip(descs, i, nf) ==
    IF i >= Len(descs)
    THEN [memory_map |-> Len(descs), next_frame |-> nf,
          current_descriptor |-> None, ret |-> None, from |-> None,
          panic |-> FALSE]
    ELSE LET descriptor == descs[i + 1] IN
         IF SubUnderflows(descriptor)
         THEN [memory_map |-> i + 1, next_frame |-> nf,
               current_descriptor |-> None, ret |-> None, from |-> None,
               panic |-> TRUE]
         ELSE LET r == allocate_frame_from_descriptor(nf, descriptor) IN
              IF r.ret # None
              THEN [memory_map |-> i + 1, next_frame |-> r.next_frame,
                    current_descriptor |-> Some(descriptor), ret |-> r.ret,
                    from |-> Some(descriptor), panic |-> FALSE]
              ELSE FindNextNoSkip(descs, i + 1, r.next_frame)

\* variant: no "self.current_descriptor = Some(descriptor)"
RECURSIVE FindNextNoCache(_, _, _)
FindNextNoCache(descs, i, nf) ==
    IF i >= Len(descs)
    THEN [memory_map |-> Len(descs), next_frame |-> nf,
          current_descriptor |-> None, ret |-> None, from |-> None,
          panic |-> FALSE]
    ELSE LET descriptor == descs[i + 1] IN
         IF ~descriptor.usable
         THEN FindNextNoCache(descs, i + 1, nf)
         ELSE IF SubUnderflows(descriptor)
         THEN [memory_map |-> i + 1, next_frame |-> nf,
               current_descriptor |-> None, ret |-> None, from |-> None,
               panic |-> TRUE]
         ELSE LET r == allocate_frame_from_descriptor(nf, descriptor) IN
              IF r.ret # None
              THEN [memory_map |-> i + 1, next_frame |-> r.next_frame,
                    current_descriptor |-> None, ret |-> r.ret,
                    from |-> Some(descriptor), panic |-> FALSE]
              ELSE FindNextNoCache(descs, i + 1, r.next_frame)

RECURSIVE FindNext(_, _, _)
FindNext(descs, i, nf) ==
    IF i >= Len(descs)
    THEN [memory_map |-> Len(descs), next_frame |-> nf,
          current_descriptor |-> None, ret |-> None, from |-> None,
          panic |-> FALSE]
    ELSE LET descriptor == descs[i + 1] IN
         IF ~descriptor.usable
         THEN FindNext(descs, i + 1, nf)
         ELSE IF SubUnderflows(descriptor)
         THEN [memory_map |-> i + 1, next_frame |-> nf,
               current_descriptor |-> None, ret |-> None, from |-> None,
               panic |-> TRUE]
         ELSE LET r == allocate_frame_from_descriptor(nf, descriptor) IN
              IF r.ret # None
              THEN [memory_map |-> i + 1, next_frame |-> r.next_frame,
                    current_descriptor |-> Some(descriptor), ret |-> r.ret,
                    from |-> Some(descriptor), panic |-> FALSE]
              ELSE FindNext(descs, i + 1, r.next_frame)

\* the whole of allocate_frame on the allocator (descs, mm, cd, nf); a cached
\* descriptor has yielded a frame before, so its end_addr - 1 cannot underflow
allocate_frame(descs, mm, cd, nf) ==
    IF cd # None
    THEN LET r == allocate_frame_from_descriptor(nf, cd[1]) IN
         IF r.ret # None
         THEN [memory_map |-> mm, next_frame |-> r.next_frame,
               current_descriptor |-> cd, ret |-> r.ret, from |-> cd,
               panic |-> FALSE]
         ELSE FindNext(descs, mm, r.next_frame)
    ELSE FindNext(descs, mm, nf)

\* ---- len --------------------------------------------------------------------
\* self.original.len()
len(descs) == Len(descs)

\* ---- max_phys_addr ----------------------------------------------------------
\* Iterator::max over .map(|r| r.start() + r.len()), from the i-th item on,
\* with acc the greatest value so far
RECURSIVE IterMax(_, _, _)
IterMax(descs, i, acc) ==
    IF i > Len(descs) THEN acc
    ELSE LET v == descs[i].start + descs[i].len IN
         IterMax(descs, i + 1,
                 IF acc = None THEN Some(v)
                 ELSE IF v >= acc[1] THEN Some(v) ELSE acc)

\* variant: the live iterator self.memory_map is walked, not self.original
max_phys_addr_Live(descs, mm) == IterMax(descs, mm + 1, None)

\* max_phys_addr(&self) before the unwrap(): None for an empty memory map; mm
\* is the position of the live iterator, which the code does not read
max_phys_addr(descs, mm) == IterMax(descs, 1, None)

\* ---- construct_memory_map --------------------------------------------------
\* variant: a region that does not fit is dropped and Ok(()) is returned
add_region_Silent(region, buf, idx) ==
    IF idx < Len(buf)
    THEN [ok |-> TRUE, regions |-> [buf EXCEPT ![idx + 1] = region],
          next_index |-> idx + 1, writes |-> <<idx>>]
    ELSE [ok |-> TRUE, regions |-> buf, next_index |-> idx,
          writes |-> << >>]

\* variant: no "*next_index += 1" after the write
add_region_NoAdvance(region, buf, idx) ==
    IF idx < Len(buf)
    THEN [ok |-> TRUE, regions |-> [buf EXCEPT ![idx + 1] = region],
          next_index |-> idx, writes |-> <<idx>>]
    ELSE [ok |-> FALSE, regions |-> buf, next_index |-> idx,
          writes |-> << >>]

\* add_region: write the slot at next_index if the buffer has one; writes is
\* the index of the slot the call wrote, if it wrote one
add_region(region, buf, idx) ==
    IF idx < Len(buf)
    THEN [ok |-> TRUE, regions |-> [buf EXCEPT ![idx + 1] = region],
          next_index |-> idx + 1, writes |-> <<idx>>]
    ELSE [ok |-> FALSE, regions |-> buf, next_index |-> idx,
          writes |-> << >>]

MemoryRegion(s, e, k) == [start |-> s, end |-> e, kind |-> k]

\* the outcome of two steps in a row: the later step's result, with the slots
\* both wrote in the order written
AndThen(first, second) ==
    [second EXCEPT !.writes = first.writes \o second.writes]

\* variant: a descriptor wholly below next_free is classified Usable
ConstructStep_WholeUsable(descriptor, nf, buf, idx) ==
    LET end       == descriptor.start + descriptor.len
        next_free == start_address(nf)
    IN  IF descriptor.usable
        THEN IF end <= next_free
             THEN add_region(MemoryRegion(descriptor.start, end, "Usable"),
                             buf, idx)
             ELSE IF descriptor.start >= next_free
             THEN add_region(MemoryRegion(descriptor.start, end, "Usable"),
                             buf, idx)
             ELSE LET used == add_region(
                                 MemoryRegion(descriptor.start, next_free,
                                              "Bootloader"), buf, idx)
                  IN  IF ~used.ok
                      THEN used
                      ELSE AndThen(used,
                          add_region(MemoryRegion(next_free, end, "Usable"),
                                     used.regions, used.next_index))
        ELSE add_region(MemoryRegion(descriptor.start, end, "Reserved"),
                        buf, idx)

\* variant: no descriptor.set_start(next_free) after the used part
ConstructStep_NoSetStart(descriptor, nf, buf, idx) ==
    LET end       == descriptor.start + descriptor.len
        next_free == start_address(nf)
    IN  IF descriptor.usable
        THEN IF end <= next_free
             THEN add_region(MemoryRegion(descriptor.start, end, "Bootloader"),
                             buf, idx)
             ELSE IF descriptor.start >= next_free
             THEN add_region(MemoryRegion(descriptor.start, end, "Usable"),
                             buf, idx)
             ELSE LET used == add_region(
                                 MemoryRegion(descriptor.start, next_free,
                                              "Bootloader"), buf, idx)
                  IN  IF ~used.ok
                      THEN used
                      ELSE AndThen(used,
                          add_region(MemoryRegion(descriptor.start, end, "Usable"),
                                     used.regions, used.next_index))
        ELSE add_region(MemoryRegion(descriptor.start, end, "Reserved"),
                        buf, idx)

\* variant: a partly used descriptor is emitted as one Usable region
ConstructStep_NoSplit(descriptor, nf, buf, idx) ==
    LET end       == descriptor.start + descriptor.len
        next_free == start_address(nf)
    IN  IF descriptor.usable
        THEN IF end <= next_free
             THEN add_region(MemoryRegion(descriptor.start, end, "Bootloader"),
                             buf, idx)
             ELSE IF descriptor.start >= next_free
             THEN add_region(MemoryRegion(descriptor.start, end, "Usable"),
                             buf, idx)
             ELSE add_region(MemoryRegion(descriptor.start, end, "Usable"),
                             buf, idx)
        ELSE add_region(MemoryRegion(descriptor.start, end, "Reserved"),
                        buf, idx)

\* variant: usable() is not consulted, every descriptor is classified by the cursor
ConstructStep_NoReserved(descriptor, nf, buf, idx) ==
    LET end       == descriptor.start + descriptor.len
        next_free == start_address(nf)
    IN  IF end <= next_free
        THEN add_region(MemoryRegion(descriptor.start, end, "Bootloader"),
                        buf, idx)
        ELSE IF descriptor.start >= next_free
        THEN add_region(MemoryRegion(descriptor.start, end,
                                     IF descriptor.usable THEN "Usable"
                                     ELSE "Reserved"), buf, idx)
        ELSE LET used == add_region(
                            MemoryRegion(descriptor.start, next_free,
                                         "Bootloader"), buf, idx)
             IN  IF ~used.ok
                 THEN used
                 ELSE AndThen(used, add_region(MemoryRegion(next_free, end,
                                              IF descriptor.usable THEN "Usable"
                                              ELSE "Reserved"),
                                 used.regions, used.next_index))

\* variant: "descriptor.start() > next_free" in place of ">="
ConstructStep_StrictAbove(descriptor, nf, buf, idx) ==
    LET end       == descriptor.start + descriptor.len
        next_free == start_address(nf)
    IN  IF descriptor.usable
        THEN IF end <= next_free
             THEN add_region(MemoryRegion(descriptor.start, end, "Bootloader"),
                             buf, idx)
             ELSE IF descriptor.start > next_free
             THEN add_region(MemoryRegion(descriptor.start, end, "Usable"),
                             buf, idx)
             ELSE LET used == add_region(
                                 MemoryRegion(descriptor.start, next_free,
                                              "Bootloader"), buf, idx)
                  IN  IF ~used.ok
                      THEN used
                      ELSE AndThen(used,
                          add_region(MemoryRegion(next_free, end, "Usable"),
                                     used.regions, used.next_index))
        ELSE add_region(MemoryRegion(descriptor.start, end, "Reserved"),
                        buf, idx)

\* variant: a descriptor of length zero is passed over without a region
ConstructStep_SkipEmpty(descriptor, nf, buf, idx) ==
    LET end       == descriptor.start + descriptor.len
        next_free == start_address(nf)
    IN  IF descriptor.len = 0
        THEN [ok |-> TRUE, regions |-> buf, next_index |-> idx,
          writes |-> << >>]
        ELSE IF descriptor.usable
        THEN IF end <= next_free
             THEN add_region(MemoryRegion(descriptor.start, end, "Bootloader"),
                             buf, idx)
             ELSE IF descriptor.start >= next_free
             THEN add_region(MemoryRegion(descriptor.start, end, "Usable"),
                             buf, idx)
             ELSE LET used == add_region(
                                 MemoryRegion(descriptor.start, next_free,
                                              "Bootloader"), buf, idx)
                  IN  IF ~used.ok
                      THEN used
                      ELSE AndThen(used,
                          add_region(MemoryRegion(next_free, end, "Usable"),
                                     used.regions, used.next_index))
        ELSE add_region(MemoryRegion(descriptor.start, end, "Reserved"),
                        buf, idx)

\* one iteration of "for mut descriptor in self.original"
ConstructStep(descriptor, nf, buf, idx) ==
    LET end       == descriptor.start + descriptor.len
        next_free == start_address(nf)
    IN  IF descriptor.usable
        THEN IF end <= next_free
             THEN add_region(MemoryRegion(descriptor.start, end, "Bootloader"),
                             buf, idx)
             ELSE IF descriptor.start >= next_free
             THEN add_region(MemoryRegion(descriptor.start, end, "Usable"),
                             buf, idx)
             ELSE LET used == add_region(
                                 MemoryRegion(descriptor.start, next_free,
                                              "Bootloader"), buf, idx)
                  IN  IF ~used.ok
                      THEN used
                      ELSE AndThen(used,
                          add_region(MemoryRegion(next_free, end, "Usable"),
                                     used.regions, used.next_index))
        ELSE add_region(MemoryRegion(descriptor.start, end, "Reserved"),
                        buf, idx)

\* the for loop from the i-th descriptor on
RECURSIVE ConstructLoop(_, _, _, _, _)
ConstructLoop(descs, i, nf, buf, idx) ==
    IF i > Len(descs)
    THEN [ok |-> TRUE, regions |-> buf, next_index |-> idx,
          writes |-> << >>]
    ELSE LET r == ConstructStep(descs[i], nf, buf, idx) IN
         IF ~r.ok THEN r
         ELSE AndThen(r, ConstructLoop(descs, i + 1, nf, r.regions,
                                       r.next_index))

\* construct_memory_map(self, regions) for a buffer of cap uninitialised slots
construct_memory_map(descs, nf, cap) ==
    ConstructLoop(descs, 1, nf, [k \in 1..cap |-> Uninit], 0)

\* ---- the state machine -----------------------------------------------------
\* new_starting_at(frame, memory_map)
Init ==
    /\ original \in SeqsUpTo(Descriptors, MaxDescs)
    /\ first_frame \in StartFrames
    /\ memory_map = 0
    /\ current_descriptor = None
    /\ next_frame = first_frame
    /\ status = "live"
    /\ ret = None
    /\ history = << >>
    /\ noneCalls = 0
    /\ max_addr = None
    /\ regions = << >>
    /\ next_index = 0
    /\ writes = << >>
    /\ outcome = "none"

\* a call of allocate_frame
AllocateFrame ==
    /\ status = "live"
    /\ noneCalls < MaxNone
    /\ LET r == allocate_frame(original, memory_map, current_descriptor,
                               next_frame)
       IN  /\ memory_map' = r.memory_map
           /\ current_descriptor' = r.current_descriptor
           /\ next_frame' = r.next_frame
           /\ status' = IF r.panic THEN "panicked" ELSE "live"
           /\ ret' = r.ret
           /\ history' = IF r.ret # None
                         THEN Append(history,
                                     [frame |-> r.ret[1], from |-> r.from[1],
                                      at |-> r.memory_map])
                         ELSE history
           /\ noneCalls' = IF r.ret = None /\ ~r.panic
                           THEN noneCalls + 1 ELSE noneCalls
    /\ UNCHANGED <<original, first_frame, max_addr, regions, next_index,
                   writes, outcome>>

\* a call of construct_memory_map, which consumes the allocator
ConstructMemoryMap ==
    /\ status = "live"
    /\ \E cap \in 0..MaxCap :
         LET r == construct_memory_map(original, next_frame, cap) IN
           /\ regions' = r.regions
           /\ next_index' = r.next_index
           /\ writes' = r.writes
           /\ outcome' = IF r.ok THEN "returned" ELSE "panic"
    /\ status' = "consumed"
    /\ UNCHANGED <<original, first_frame, memory_map, current_descriptor,
                   next_frame, ret, history, noneCalls, max_addr>>

\* a call of max_phys_addr; unwrap() panics on an empty memory map
MaxPhysAddr ==
    /\ status = "live"
    /\ LET r == max_phys_addr(original, memory_map) IN
         /\ max_addr' = r
         /\ status' = IF r = None THEN "panicked" ELSE "live"
    /\ UNCHANGED <<original, first_frame, memory_map, current_descriptor,
                   next_frame, ret, history, noneCalls, regions, next_index,
                   writes, outcome>>

Next == AllocateFrame \/ ConstructMemoryMap \/ MaxPhysAddr

Spec == Init /\ [][Next]_vars

\* ---- properties ------------------------------------------------------------
\* the frames returned so far, in the order returned
Returned == [i \in 1..Len(history) |-> history[i].frame]

\* the slice construct_memory_map returns: &mut regions[..next_index]
Slice == SubSeq(regions, 1, next_index)

\* one past the last byte of a descriptor
EndOf(d) == d.start + d.len

\* the bytes [s1, e1) and [s2, e2) have a byte in common
Intersects(s1, e1, s2, e2) == s1 < e1 /\ s2 < e2 /\ s1 < e2 /\ s2 < e1

\* C1: every frame returned by a successful allocate_frame call has a strictly
\* greater address than the frame the previous successful call returned.
C1_MonotonicFrames ==
    \A i \in 1..Len(history) :
        \A j \in 1..Len(history) :
            i < j => start_address(Returned[i]) < start_address(Returned[j])

\* frames were returned out of two different descriptors
C1_Witness ==
    /\ Len(history) >= 3
    /\ history[1].from # history[Len(history)].from

\* C2: after construct_memory_map returns, no Usable region of the final map
\* has a byte in common with a frame that allocate_frame returned.
C2_NoUsableOverAllocated ==
    outcome = "returned" =>
        \A k \in 1..Len(Slice) :
            Slice[k].kind = "Usable" =>
                \A i \in 1..Len(history) :
                    ~Intersects(Slice[k].start, Slice[k].end,
                                start_address(Returned[i]),
                                start_address(Returned[i] + 1))

\* a map with a non-empty Usable region was built after frames were returned
C2_Witness ==
    /\ outcome = "returned"
    /\ Len(history) >= 2
    /\ \E k \in 1..Len(Slice) :
          /\ Slice[k].kind = "Usable"
          /\ Slice[k].start < Slice[k].end
          /\ Slice[k].start = start_address(Returned[Len(history)] + 1)

\* C3: no returned frame lies below the frame given at construction.
C3_LowerBound ==
    \A i \in 1..Len(history) :
        start_address(Returned[i]) >= start_address(first_frame)

\* a frame was drawn from a usable descriptor that starts below the first frame
C3_Witness ==
    /\ Len(history) >= 1
    /\ history[1].from.start < start_address(first_frame)

\* the highest address a descriptor of the model ends at
MaxAddr == CHOOSE m \in {s + l : s \in StartAddrs, l \in Lengths} :
               \A s \in StartAddrs, l \in Lengths : s + l <= m

\* the whole frames of the usable descriptors at or above the first frame
WholeUsableFrames ==
    {f \in 0..containing_address(MaxAddr) :
        /\ f >= first_frame
        /\ \E k \in 1..Len(original) :
              /\ original[k].usable
              /\ original[k].start <= start_address(f)
              /\ start_address(f + 1) <= EndOf(original[k])}

ReturnedSet == {history[i].frame : i \in 1..Len(history)}

\* C4: when allocate_frame returns None, every whole frame inside a usable
\* descriptor at or above the first frame has been returned by an earlier call.
C4_NoneOnlyWhenAllReturned ==
    noneCalls > 0 => WholeUsableFrames \subseteq ReturnedSet

\* the descriptor [0x1000, 0x5000) of the scenarios
FourFrames == [start |-> FrameSize, len |-> 4 * FrameSize, usable |-> TRUE]

\* a single usable frame-aligned descriptor that begins at the first frame
AlignedAtFirst ==
    /\ Len(original) = 1
    /\ original[1].usable
    /\ original[1].start = start_address(first_frame)
    /\ original[1].len = start_address(containing_address(original[1].len))

\* C5: a frame-aligned usable descriptor of n frames that begins at the first
\* frame supports n successful allocations (4 for [0x1000, 0x5000)), and after
\* the 4 allocations the final map is the one region Bootloader [0x1000, 0x5000).
C5_FullConsumption ==
    /\ (AlignedAtFirst /\ noneCalls > 0) =>
           Len(history) >= containing_address(original[1].len)
    /\ (original = <<FourFrames>> /\ first_frame = 1 /\ Len(history) = 4
           /\ outcome = "returned") =>
           Slice = <<MemoryRegion(FrameSize, 5 * FrameSize, "Bootloader")>>

\* the final cursor value construct_memory_map reads
NextFree == start_address(next_frame)

\* the cursor lies strictly inside the usable descriptor d
StrictlyInside(d) == d.usable /\ d.start < NextFree /\ NextFree < EndOf(d)

RECURSIVE SumTo(_, _)
SumTo(cnt, k) == IF k = 0 THEN 0 ELSE cnt[k] + SumTo(cnt, k - 1)

\* the regions rs are, descriptor by descriptor in the original order, cnt[i]
\* contiguous regions whose union is exactly the bytes of descriptor i
CoversBy(rs, cnt) ==
    /\ Len(rs) = SumTo(cnt, Len(original))
    /\ \A i \in 1..Len(original) :
          LET o == SumTo(cnt, i - 1)
              d == original[i]
          IN  /\ rs[o + 1].start = d.start
              /\ rs[o + cnt[i]].end = EndOf(d)
              /\ \A k \in (o + 1)..(o + cnt[i]) :
                    /\ rs[k].start <= rs[k].end
                    /\ rs[k].kind \in Kinds
              /\ cnt[i] = 2 => rs[o + 1].end = rs[o + 2].start

\* no two of the descriptors have a byte in common
PairwiseDisjoint ==
    \A i \in 1..Len(original) : \A j \in 1..Len(original) :
        i < j => ~Intersects(original[i].start, EndOf(original[i]),
                             original[j].start, EndOf(original[j]))

\* C6: the regions construct_memory_map returns are, for each original
\* descriptor in original order, one or two contiguous regions whose union is
\* exactly [start, start + length); with pairwise disjoint descriptors no byte
\* lies in two regions.
C6_CoverageConservation ==
    outcome = "returned" =>
        /\ \E cnt \in [1..Len(original) -> {1, 2}] : CoversBy(Slice, cnt)
        /\ PairwiseDisjoint =>
              \A j \in 1..Len(Slice) : \A k \in 1..Len(Slice) :
                  j < k => ~Intersects(Slice[j].start, Slice[j].end,
                                       Slice[k].start, Slice[k].end)

\* a map of two disjoint descriptors, one of them split by the cursor
C6_Witness ==
    /\ outcome = "returned"
    /\ Len(original) = 2
    /\ PairwiseDisjoint
    /\ original[1].len > 0
    /\ original[2].len > 0
    /\ Len(history) >= 1
    /\ next_index = 3

\* regions emitted for the descriptors before the i-th
RECURSIVE RegionsBefore(_)
RegionsBefore(i) ==
    IF i <= 1 THEN 0
    ELSE RegionsBefore(i - 1) + (IF StrictlyInside(original[i - 1]) THEN 2 ELSE 1)

\* C7: a usable descriptor with the final cursor strictly inside it is emitted
\* as exactly two adjacent regions, Bootloader [start, next_free) and then
\* Usable [next_free, end); [0x1000, 0x5000) after the two allocations 0x1000
\* and 0x2000 gives Bootloader [0x1000, 0x3000), Usable [0x3000, 0x5000).
C7_SplitCorrectness ==
    outcome = "returned" =>
        /\ \A i \in 1..Len(original) :
              StrictlyInside(original[i]) =>
                  LET o == RegionsBefore(i) IN
                    /\ o + 2 = RegionsBefore(i + 1)
                    /\ o + 2 <= Len(Slice)
                    /\ Slice[o + 1] = MemoryRegion(original[i].start, NextFree,
                                                   "Bootloader")
                    /\ Slice[o + 2] = MemoryRegion(NextFree, EndOf(original[i]),
                                                   "Usable")
        /\ (original = <<FourFrames>> /\ first_frame = 1
               /\ Returned = <<1, 2>>) =>
              Slice = <<MemoryRegion(FrameSize, 3 * FrameSize, "Bootloader"),
                        MemoryRegion(3 * FrameSize, 5 * FrameSize, "Usable")>>

\* the map of [0x1000, 0x5000) was built after exactly two allocations
C7_Witness ==
    /\ outcome = "returned"
    /\ original = <<FourFrames>>
    /\ first_frame = 1
    /\ Returned = <<1, 2>>

\* the number of regions construct_memory_map emits for the original sequence
RegionsToEmit == RegionsBefore(Len(original) + 1)

\* C8: with fewer slots than regions to emit the call panics and returns
\* nothing; with at least that many it returns exactly that many regions.
C8_CapacityFault ==
    status = "consumed" =>
        /\ Len(regions) < RegionsToEmit => outcome = "panic"
        /\ Len(regions) >= RegionsToEmit =>
              outcome = "returned" /\ Len(Slice) = RegionsToEmit

\* the call panicked on the last region, after writing all the others
C8_Witness ==
    /\ outcome = "panic"
    /\ Len(regions) >= 2
    /\ Len(regions) = RegionsToEmit - 1
    /\ next_index = Len(regions)

\* C9: once allocate_frame has returned None, every later call returns None
\* and no further frame is returned.
C9_ExhaustionIsFinal ==
    [][noneCalls > 0 => (ret' = None /\ history' = history)]_vars

\* None was returned twice, after frames had been returned from a sequence
\* that has a not-usable descriptor
C9_Witness ==
    /\ noneCalls >= 2
    /\ Len(history) >= 2
    /\ \E k \in 1..Len(original) : ~original[k].usable

\* the descriptor d occurs in the original sequence
InOriginal(d) == \E k \in 1..Len(original) : original[k] = d

\* C10: every returned frame was drawn from a usable descriptor of the
\* sequence, at or after its start frame and before its end frame; a sequence
\* of only not-usable descriptors gives None on the first call.
C10_UnusableSkip ==
    /\ \A i \in 1..Len(history) :
          LET d == history[i].from IN
            /\ InOriginal(d)
            /\ d.usable
            /\ containing_address(d.start) <= history[i].frame
            /\ history[i].frame < containing_address(EndOf(d) - 1)
    /\ (\A k \in 1..Len(original) : ~original[k].usable) =>
          /\ history = << >>
          /\ ret = None
          \* no allocate_frame call panics; max_phys_addr does on an empty map
          /\ status = "panicked" => original = << >>

\* a frame was returned after a not-usable descriptor that covers it was skipped
C10_Witness ==
    /\ Len(history) >= 1
    /\ Len(original) >= 2
    /\ ~original[1].usable
    /\ original[1].start <= start_address(history[1].frame)
    /\ start_address(history[1].frame) < EndOf(original[1])

\* the region the final map holds at the first slot of the i-th descriptor
FirstRegionOf(i) == Slice[RegionsBefore(i) + 1]

\* C11: every not-usable descriptor is emitted as exactly one region, Reserved
\* [start, start + length), wherever the final cursor lies.
C11_ReservedPassThrough ==
    outcome = "returned" =>
        /\ Len(Slice) = RegionsToEmit
        /\ \A i \in 1..Len(original) :
              ~original[i].usable =>
                  /\ RegionsBefore(i + 1) = RegionsBefore(i) + 1
                  /\ FirstRegionOf(i) = MemoryRegion(original[i].start,
                                                     EndOf(original[i]),
                                                     "Reserved")

\* the map has a not-usable descriptor with the final cursor strictly inside it
C11_Witness ==
    /\ outcome = "returned"
    /\ Len(history) >= 1
    /\ \E i \in 1..Len(original) :
          /\ ~original[i].usable
          /\ original[i].start < NextFree
          /\ NextFree < EndOf(original[i])

\* C12 as claimed: every usable descriptor with start >= next_free is emitted
\* as exactly one Usable region spanning the descriptor.
C12_UntouchedAsClaimed ==
    outcome = "returned" =>
        \A i \in 1..Len(original) :
            (original[i].usable /\ original[i].start >= NextFree) =>
                /\ RegionsBefore(i + 1) = RegionsBefore(i) + 1
                /\ FirstRegionOf(i) = MemoryRegion(original[i].start,
                                                   EndOf(original[i]), "Usable")

\* C12: every usable descriptor of non-zero length with start >= next_free is
\* emitted as exactly one Usable region spanning the descriptor; an empty
\* usable descriptor that starts exactly at next_free is emitted as Bootloader.
C12_Untouched ==
    outcome = "returned" =>
        \A i \in 1..Len(original) :
            (original[i].usable /\ original[i].start >= NextFree) =>
                /\ RegionsBefore(i + 1) = RegionsBefore(i) + 1
                /\ FirstRegionOf(i) =
                      MemoryRegion(original[i].start, EndOf(original[i]),
                                   IF original[i].len = 0
                                      /\ original[i].start = NextFree
                                   THEN "Bootloader" ELSE "Usable")

\* the map has a non-empty usable descriptor at or above the cursor, built
\* after a frame was drawn from another descriptor
C12_Witness ==
    /\ outcome = "returned"
    /\ Len(history) >= 1
    /\ \E i \in 1..Len(original) :
          /\ original[i].usable
          /\ original[i].len > 0
          /\ original[i].start >= NextFree

\* C13: a successful construct_memory_map emits between len() and 2 * len()
\* regions, and a buffer of 2 * len() slots never makes it panic.
C13_RegionCountBounds ==
    status = "consumed" =>
        /\ outcome = "returned" =>
              /\ len(original) <= Len(Slice)
              /\ Len(Slice) <= 2 * len(original)
        /\ Len(regions) >= 2 * len(original) => outcome = "returned"

\* every descriptor of a two-descriptor map was split, filling 2 * len() slots
C13_Witness ==
    /\ outcome = "returned"
    /\ len(original) = 2
    /\ Len(history) >= 1
    /\ Len(regions) = 2 * len(original)
    /\ Len(Slice) = 2 * len(original)

\* C14: construct_memory_map writes no slot at an index >= the capacity,
\* writes the slots 0..r-1 once each in increasing order, and returns exactly
\* those r written slots.
C14_WritesInBounds ==
    status = "consumed" =>
        /\ \A k \in 1..Len(writes) :
              /\ writes[k] = k - 1
              /\ writes[k] < Len(regions)
        /\ \A k \in 1..Len(regions) :
              regions[k] # Uninit <=> k <= Len(writes)
        /\ outcome = "returned" =>
              /\ next_index = Len(writes)
              /\ Len(Slice) = Len(writes)
              /\ \A k \in 1..Len(Slice) : Slice[k].kind \in Kinds

\* a map of three regions was returned out of a buffer with a slot to spare
C14_Witness ==
    /\ outcome = "returned"
    /\ Len(history) >= 1
    /\ writes = <<0, 1, 2>>
    /\ Len(regions) > 3

\* C15: next_frame never decreases over a call, and a call that returns a
\* frame leaves it exactly one frame above that frame.
C15_CursorMonotonic ==
    [][/\ next_frame' >= next_frame
       /\ Len(history') > Len(history) =>
             next_frame' = history'[Len(history')].frame + 1]_vars

\* a call moved on to a usable descriptor that starts below the cursor and
\* returned None
C15_Witness ==
    /\ noneCalls >= 1
    /\ Len(history) >= 1
    /\ Len(original) = 2
    /\ history[1].from = original[1]
    /\ original[2].usable
    /\ original[2].len > 0
    /\ original[2].start < original[1].start
    /\ containing_address(original[2].start) < first_frame

\* the greatest start + length of the original descriptors
MaxEnd == CHOOSE m \in {EndOf(original[k]) : k \in 1..Len(original)} :
              \A k \in 1..Len(original) : EndOf(original[k]) <= m

\* C16: for a non-empty sequence max_phys_addr returns the maximum of
\* start + length over all original descriptors, usable or not, before and
\* after any number of allocate_frame calls.
C16_MaxPhysAddr ==
    max_addr # None => (Len(original) > 0 /\ max_addr = Some(MaxEnd))

\* max_phys_addr was called on an allocator whose live iterator is exhausted
\* and whose highest descriptor is not usable
C16_Witness ==
    /\ max_addr # None
    /\ noneCalls >= 1
    /\ Len(history) >= 1
    /\ \E k \in 1..Len(original) :
          ~original[k].usable /\ EndOf(original[k]) = MaxEnd
    /\ \A k \in 1..Len(original) :
          original[k].usable => EndOf(original[k]) < MaxEnd

\* the whole frames inside the region r at or above the first frame
FramesInside(r) ==
    {f \in 0..containing_address(MaxAddr) :
        /\ f >= first_frame
        /\ r.start <= start_address(f)
        /\ start_address(f + 1) <= r.end}

\* C17: every whole frame at or above the first frame inside a Bootloader region
\* of the final map was returned by an earlier allocate_frame call.
C17_BootloaderWasAllocated ==
    outcome = "returned" =>
        \A k \in 1..Len(Slice) :
            Slice[k].kind = "Bootloader" =>
                FramesInside(Slice[k]) \subseteq ReturnedSet

\* the descriptor d is usable and of length zero
ZeroLength(d) == d.usable /\ d.len = 0

\* the sequence descs without its zero-length usable descriptors
RECURSIVE WithoutZeroLength(_)
WithoutZeroLength(descs) ==
    IF descs = << >> THEN << >>
    ELSE IF ZeroLength(Head(descs)) THEN WithoutZeroLength(Tail(descs))
    ELSE <<Head(descs)>> \o WithoutZeroLength(Tail(descs))

\* the frames successive allocate_frame calls return on the allocator
\* (descs, mm, cd, nf), up to the first None
RECURSIVE FramesFrom(_, _, _, _)
FramesFrom(descs, mm, cd, nf) ==
    LET r == allocate_frame(descs, mm, cd, nf) IN
      IF r.ret = None THEN << >>
      ELSE <<r.ret[1]>> \o FramesFrom(descs, r.memory_map,
                                      r.current_descriptor, r.next_frame)

IsPrefix(s, t) == Len(s) <= Len(t) /\ s = SubSeq(t, 1, Len(s))

\* C18: a zero-length usable descriptor yields no frame and makes no call
\* panic, whatever its start, and the frames returned are those returned
\* without that descriptor in the sequence.
C18_ZeroLengthSkippable ==
    (\E k \in 1..Len(original) : ZeroLength(original[k])) =>
        /\ status # "panicked"
        /\ \A i \in 1..Len(history) : ~ZeroLength(history[i].from)
        /\ IsPrefix(Returned,
                    FramesFrom(WithoutZeroLength(original), 0, None,
                               first_frame))
        /\ noneCalls > 0 =>
              Returned = FramesFrom(WithoutZeroLength(original), 0, None,
                                    first_frame)

\* C19: every returned frame lies entirely within [start, start + length) of
\* some usable descriptor of the original sequence.
C19_FrameInsideUsable ==
    \A i \in 1..Len(history) :
        \E k \in 1..Len(original) :
            /\ original[k].usable
            /\ original[k].start <= start_address(Returned[i])
            /\ start_address(Returned[i] + 1) <= EndOf(original[k])

\* the state after at least one allocate_frame call
Called == Len(history) + noneCalls > 0

\* C20: after every allocate_frame call current_descriptor is present exactly
\* if the call returned a frame, and is then the usable descriptor the frame
\* was drawn from; the live iterator only moves forward, so the index of the
\* descriptor that supplies successive frames never decreases.
C20_TwoStateMachine ==
    /\ [](status # "panicked" =>
            /\ current_descriptor # None <=> ret # None
            /\ ret # None =>
                  /\ Called
                  /\ ret = Some(history[Len(history)].frame)
                  /\ current_descriptor = Some(history[Len(history)].from)
                  /\ current_descriptor[1].usable
            /\ \A i \in 1..Len(history) :
                  /\ history[i].at \in 1..Len(original)
                  /\ original[history[i].at] = history[i].from
                  /\ \A j \in 1..Len(history) :
                        i < j => history[i].at <= history[j].at)
    /\ [][memory_map' >= memory_map]_vars

\* frames were drawn from the first and then from the second descriptor, and
\* a later call returned None
C20_Witness ==
    /\ Len(history) >= 2
    /\ history[1].at = 1
    /\ history[Len(history)].at = 2
    /\ noneCalls >= 1
    /\ current_descriptor = None

====
